---- MODULE Spec2Model ----
(***************************************************************************)
(* custom_LineZone (src/c_line_counter.py): the line-crossing counter.     *)
(*                                                                         *)
(* One state machine: the counter object after __init__, and one action,   *)
(* trigger(detections), which processes a whole frame of detections.       *)
(*                                                                         *)
(* Coordinates.  The anchor of a box is ((x1+x2)/2, y2) or                 *)
(* ((x1+x2)/2, (y1+y2)/2): Python's true division, so halves occur.  The   *)
(* model keeps the anchor DOUBLED (x1+x2, 2*y2), and doubles the other     *)
(* side of every comparison it enters, so the arithmetic is exact.         *)
(***************************************************************************)
EXTENDS Integers, Sequences, FiniteSets, TLC

\* ---------------------------------------------------------------- bounds
\* Spec: trigger is not called once current_frame has reached MaxFrame.
MaxFrame == 5
\* SpecPair: the same, for the runs with two identities.
MaxFramePair == 2
\* A frame holds at most MaxDets detections.
MaxDets == 2
\* SpecZones: each of the two line zones is called at most MaxFrameZones times.
MaxFrameZones == 2

\* ------------------------------------------------------------- constants
\* is_within_line_segment(self, point, margin: float = 20); trigger never
\* passes another margin.
margin == 20

\* tracker_id is None
None == "None"
\* The identities the tracker hands out: one in Spec, two in SpecPair.
TrackerIds == {"t1"}
TrackerIdsPair == {"t1", "t2"}

Pt(px, py) == [x |-> px, y |-> py]

\* The lines a counter is constructed with: the vertical line of the
\* direction test, and a line whose start equals its end (__init__ checks
\* nothing, so it is accepted).
VLine == [start |-> Pt(100, 0), end |-> Pt(100, 200)]
PointLine == [start |-> Pt(100, 100), end |-> Pt(100, 100)]
Lines == {VLine, PointLine}

\* The grace periods a counter is constructed with (__init__ stores the
\* argument as it is, negative or not).
GracePeriods == {-1, 0, 1, 2}

\* config["ANCHOR_POINT"]: "center", anything else is bottom center.
AnchorPolicies == {"center", "bottom_center"}

\* Bounding boxes <<x1, y1, x2, y2>> of detections, by their bottom-center
\* anchor: (50,100), (90,100), (110,100), (150,100) and (90,240).  The
\* center of the last box is (90,210): inside the margin rectangle of VLine
\* (x in 80..120, y in -20..220) where its bottom-center anchor is below it.
FarLeft  == <<40, 60, 60, 100>>
Left     == <<80, 60, 100, 100>>
Right    == <<100, 60, 120, 100>>
FarRight == <<140, 60, 160, 100>>
Low      == <<80, 180, 100, 240>>
Boxes == {FarLeft, Left, Right, FarRight, Low}
NearBoxes == {Left, Right, FarRight}

\* One row of Detections: (xyxy, _, confidence, class_id, tracker_id); only
\* xyxy and tracker_id are read.
Det(box, id) == [xyxy |-> box, tracker_id |-> id]

\* The detections of Spec and of SpecPair.
DetsOne ==
    {Det(b, id) : b \in Boxes, id \in TrackerIds}
        \cup {Det(b, None) : b \in NearBoxes}
DetsPair == {Det(b, id) : b \in NearBoxes, id \in TrackerIdsPair}

\* The frames trigger is called with: at most MaxDets detections, in any
\* order, an identity possibly more than once.
FramesOf(dets) == UNION { [1..n -> dets] : n \in 0..MaxDets }
FramesOne == FramesOf(DetsOne)
FramesPair == FramesOf(DetsPair)

VARIABLES
    vector,           \* self.vector: [start, end]
    grace_period,     \* self.grace_period
    anchor_point,     \* self.config["ANCHOR_POINT"]
    tracker_state,    \* self.tracker_state: id -> side
    already_counted,  \* self.already_counted: id -> flag
    frame_last_seen,  \* self.frame_last_seen: id -> frame
    current_frame,    \* self.current_frame
    in_count,         \* self.in_count
    out_count,        \* self.out_count
    \* History of the calls, read by the properties only:
    seen_at,          \* id -> frame of its last processed sighting
    seen_side,        \* id -> side computed at that sighting
    crossings,        \* id -> increments it has contributed
    flips,            \* id -> sighted on every frame since its first
                      \*       sighting, once per frame, the side flipping
    tally,            \* id -> its increments: ins, outs, the frame (at) and
                      \*       the side (to) of the last one, and alt: each
                      \*       went to the side opposite to the one before
    guarded,          \* id -> its last processed sighting was a side change
                      \*       of a counted identity within the grace period
    \* A second line zone of main's line_zones, or NoZone:
    other             \* [vector, grace_period, self]

vars == <<vector, grace_period, anchor_point, tracker_state, already_counted,
          frame_last_seen, current_frame, in_count, out_count,
          seen_at, seen_side, crossings, flips, tally, guarded, other>>

Min(a, b) == IF a <= b THEN a ELSE b
Max(a, b) == IF a >= b THEN a ELSE b

\* ------------------------------------------------------------- geometry
\* The anchor of a box, doubled.
Anchor2(xyxy) ==
    IF anchor_point = "center"
    THEN Pt(xyxy[1] + xyxy[3], xyxy[2] + xyxy[4])
    ELSE Pt(xyxy[1] + xyxy[3], 2 * xyxy[4])

\* is_within_line_segment returning x_within or y_within.
is_within_either(p2) ==
    LET x_within ==
            /\ 2 * (Min(vector.start.x, vector.end.x) - margin) <= p2.x
            /\ p2.x <= 2 * (Max(vector.start.x, vector.end.x) + margin)
        y_within ==
            /\ 2 * (Min(vector.start.y, vector.end.y) - margin) <= p2.y
            /\ p2.y <= 2 * (Max(vector.start.y, vector.end.y) + margin)
    IN  x_within \/ y_within

\* is_within_line_segment on a doubled point.
is_within_line_segment(p2) ==
    LET x_within ==
            /\ 2 * (Min(vector.start.x, vector.end.x) - margin) <= p2.x
            /\ p2.x <= 2 * (Max(vector.start.x, vector.end.x) + margin)
        y_within ==
            /\ 2 * (Min(vector.start.y, vector.end.y) - margin) <= p2.y
            /\ p2.y <= 2 * (Max(vector.start.y, vector.end.y) + margin)
    IN  x_within /\ y_within

\* Vector.is_in on a doubled point: the cross product of end - start and
\* point - start is negative (doubling the point doubles the product).
is_in(p2) ==
    LET cross_product2 ==
            (vector.end.x - vector.start.x) * (p2.y - 2 * vector.start.y)
          - (vector.end.y - vector.start.y) * (p2.x - 2 * vector.start.x)
    IN  cross_product2 < 0

\* ----------------------------------------------------------- the counter
\* The mutable part of the object, as one record.
Self ==
    [ tracker_state   |-> tracker_state,
      already_counted |-> already_counted,
      frame_last_seen |-> frame_last_seen,
      current_frame   |-> current_frame,
      in_count        |-> in_count,
      out_count       |-> out_count ]

\* A detection that passes both skips of the loop body.
Valid(det) ==
    /\ det.tracker_id # None
    /\ is_within_line_segment(Anchor2(det.xyxy))

\* dict.get(key, default)
Get(dict, key, default) ==
    IF key \in DOMAIN dict THEN dict[key] ELSE default

\* The grace-period test with >= for >.
GraceOverAtBoundary(s, id) ==
    s.current_frame - Get(s.frame_last_seen, id, 0) >= grace_period

\* The grace-period test of a side change of an identity already counted.
GraceOver(s, id) ==
    s.current_frame - Get(s.frame_last_seen, id, 0) > grace_period

\* Count with the else branch lost: every crossing counts as "in".
CountAlwaysIn(s, id, side) ==
    [ s EXCEPT
        !.tracker_state   = (id :> side) @@ @,
        !.already_counted = (id :> TRUE) @@ @,
        !.frame_last_seen = (id :> s.current_frame) @@ @,
        !.in_count        = @ + 1 ]

\* Count as a net occupancy: a crossing to the other side takes one off.
CountNet(s, id, side) ==
    [ s EXCEPT
        !.tracker_state   = (id :> side) @@ @,
        !.already_counted = (id :> TRUE) @@ @,
        !.frame_last_seen = (id :> s.current_frame) @@ @,
        !.in_count        = IF side THEN @ + 1 ELSE @ - 1 ]

\* Count storing the frames since the last sighting, not the frame.
CountGap(s, id, side) ==
    [ s EXCEPT
        !.tracker_state   = (id :> side) @@ @,
        !.already_counted = (id :> TRUE) @@ @,
        !.frame_last_seen = (id :> s.current_frame - s.frame_last_seen[id]) @@ @,
        !.in_count        = IF side THEN @ + 1 ELSE @,
        !.out_count       = IF side THEN @ ELSE @ + 1 ]

\* The counted crossing without the assignment of tracker_state.
CountKeepsSide(s, id, side) ==
    [ s EXCEPT
        !.already_counted = (id :> TRUE) @@ @,
        !.frame_last_seen = (id :> s.current_frame) @@ @,
        !.in_count        = IF side THEN @ + 1 ELSE @,
        !.out_count       = IF side THEN @ ELSE @ + 1 ]

\* The counted crossing without the assignment of already_counted.
CountKeepsFlag(s, id, side) ==
    [ s EXCEPT
        !.tracker_state   = (id :> side) @@ @,
        !.frame_last_seen = (id :> s.current_frame) @@ @,
        !.in_count        = IF side THEN @ + 1 ELSE @,
        !.out_count       = IF side THEN @ ELSE @ + 1 ]

\* The record of a counted crossing, and the counter it increments.
Count(s, id, side) ==
    [ s EXCEPT
        !.tracker_state   = (id :> side) @@ @,
        !.already_counted = (id :> TRUE) @@ @,
        !.frame_last_seen = (id :> s.current_frame) @@ @,
        !.in_count        = IF side THEN @ + 1 ELSE @,
        !.out_count       = IF side THEN @ ELSE @ + 1 ]

\* NewDetection counting the first sighting as a crossing.
NewDetectionCounts(s, id, side) ==
    [ s EXCEPT
        !.tracker_state   = (id :> side) @@ @,
        !.already_counted = (id :> TRUE) @@ @,
        !.frame_last_seen = (id :> s.current_frame) @@ @,
        !.in_count        = IF side THEN @ + 1 ELSE @,
        !.out_count       = IF side THEN @ ELSE @ + 1 ]

\* NewDetection without the assignment of frame_last_seen.
NewDetectionNoLastSeen(s, id, side) ==
    [ s EXCEPT
        !.tracker_state   = (id :> side) @@ @,
        !.already_counted = (id :> FALSE) @@ @ ]

\* A new identity: its record is created, nothing is counted.
NewDetection(s, id, side) ==
    [ s EXCEPT
        !.tracker_state   = (id :> side) @@ @,
        !.already_counted = (id :> FALSE) @@ @,
        !.frame_last_seen = (id :> s.current_frame) @@ @ ]

\* A detection on the side the record holds.
SameSide(s, id) == s

\* A side change of a counted identity within the grace period.
Suppress(s, id) == s

\* One pass without the test of tracker_id: None is a key like any other.
StepNoneAsKey(s, det) ==
    LET id     == det.tracker_id
        anchor == Anchor2(det.xyxy)
        side   == is_in(anchor)
    IN  IF ~is_within_line_segment(anchor) THEN s
        ELSE IF id \notin DOMAIN s.tracker_state THEN NewDetection(s, id, side)
        ELSE IF s.tracker_state[id] = side THEN SameSide(s, id)
        ELSE IF Get(s.already_counted, id, FALSE) /\ ~GraceOver(s, id)
             THEN Suppress(s, id)
        ELSE Count(s, id, side)

\* One pass of the loop body of trigger.
Step(s, det) ==
    LET id     == det.tracker_id
        anchor == Anchor2(det.xyxy)
        side   == is_in(anchor)
    IN  IF id = None THEN s
        ELSE IF ~is_within_line_segment(anchor) THEN s
        ELSE IF id \notin DOMAIN s.tracker_state THEN NewDetection(s, id, side)
        ELSE IF s.tracker_state[id] = side THEN SameSide(s, id)
        ELSE IF Get(s.already_counted, id, FALSE) /\ ~GraceOver(s, id)
             THEN Suppress(s, id)
        ELSE Count(s, id, side)

\* The tally of an identity with no increment yet.
NoTally == [ins |-> 0, outs |-> 0, at |-> 0, to |-> FALSE, alt |-> TRUE]

\* The history of one pass: h before, s the object before the pass, t after.
Note(h, s, t, det) ==
    LET id   == det.tracker_id
        side == is_in(Anchor2(det.xyxy))
        new  == id \notin DOMAIN h.seen_at
        inc  == (t.in_count + t.out_count) - (s.in_count + s.out_count)
        old  == IF new THEN NoTally ELSE h.tally[id]
        to   == t.in_count > s.in_count
        now  == IF inc = 0 THEN old
                ELSE [ ins  |-> old.ins + (t.in_count - s.in_count),
                       outs |-> old.outs + (t.out_count - s.out_count),
                       at   |-> s.current_frame,
                       to   |-> to,
                       alt  |-> old.alt /\ (old.ins + old.outs = 0 \/ old.to # to) ]
        grd  == /\ id \in DOMAIN s.tracker_state
                /\ s.tracker_state[id] # side
                /\ Get(s.already_counted, id, FALSE)
                /\ s.current_frame - Get(s.frame_last_seen, id, 0) <= grace_period
    IN  IF ~Valid(det) THEN h
        ELSE [ seen_at   |-> (id :> s.current_frame) @@ h.seen_at,
               seen_side |-> (id :> side) @@ h.seen_side,
               crossings |-> (id :> (IF new THEN 0 ELSE h.crossings[id]) + inc)
                                @@ h.crossings,
               flips     |-> (id :> (new \/ ( /\ h.flips[id]
                                              /\ h.seen_at[id] + 1 = s.current_frame
                                              /\ h.seen_side[id] # side )))
                                @@ h.flips,
               tally     |-> (id :> now) @@ h.tally,
               guarded   |-> (id :> grd) @@ h.guarded ]

History ==
    [ seen_at |-> seen_at, seen_side |-> seen_side,
      crossings |-> crossings, flips |-> flips,
      tally |-> tally, guarded |-> guarded ]

\* The loop leaving at the first counted crossing (break for continue).
RECURSIVE LoopBreak(_, _, _, _)
LoopBreak(s, h, detections, k) ==
    IF k > Len(detections) THEN [self |-> s, hist |-> h]
    ELSE LET t == Step(s, detections[k])
             n == Note(h, s, t, detections[k])
         IN  IF t.in_count + t.out_count > s.in_count + s.out_count
             THEN [self |-> t, hist |-> n]
             ELSE LoopBreak(t, n, detections, k + 1)

\* The for loop of trigger over detections[k..]: the object and the history.
RECURSIVE Loop(_, _, _, _)
Loop(s, h, detections, k) ==
    IF k > Len(detections) THEN [self |-> s, hist |-> h]
    ELSE LET t == Step(s, detections[k])
         IN  Loop(t, Note(h, s, t, detections[k]), detections, k + 1)

\* trigger counting a frame only when it holds a detection (the increment
\* inside the loop's first pass).
RunSkipEmpty(s, h, detections) ==
    IF Len(detections) = 0 THEN [self |-> s, hist |-> h]
    ELSE Loop([s EXCEPT !.current_frame = @ + 1], h, detections, 1)

\* trigger(detections) on the object s with history h.
Run(s, h, detections) ==
    Loop([s EXCEPT !.current_frame = @ + 1], h, detections, 1)

Empty == [i \in {} |-> TRUE]

\* The object __init__ builds, and the empty history.
Fresh ==
    [ tracker_state   |-> Empty,
      already_counted |-> Empty,
      frame_last_seen |-> Empty,
      current_frame   |-> 0,
      in_count        |-> 0,
      out_count       |-> 0 ]
NoHistory ==
    [ seen_at |-> Empty, seen_side |-> Empty,
      crossings |-> Empty, flips |-> Empty,
      tally |-> Empty, guarded |-> Empty ]

\* main's line_zones holds one line zone.
NoZone == [vector |-> VLine, grace_period |-> 0, self |-> Fresh]

\* The counter after __init__, whatever else line_zones holds.
InitCounter ==
    /\ vector \in Lines
    /\ grace_period \in GracePeriods
    /\ anchor_point \in AnchorPolicies
    /\ tracker_state = Empty
    /\ already_counted = Empty
    /\ frame_last_seen = Empty
    /\ current_frame = 0
    /\ in_count = 0
    /\ out_count = 0
    /\ seen_at = Empty
    /\ seen_side = Empty
    /\ crossings = Empty
    /\ flips = Empty
    /\ tally = Empty
    /\ guarded = Empty

Init == InitCounter /\ other = NoZone

\* trigger with the three dicts as attributes of the class: every line zone
\* reads and writes the same dicts.
triggerShared(detections) ==
    /\ \E r \in {Run(Self, History, detections)} :
           /\ tracker_state'   = r.self.tracker_state
           /\ already_counted' = r.self.already_counted
           /\ frame_last_seen' = r.self.frame_last_seen
           /\ current_frame'   = r.self.current_frame
           /\ in_count'        = r.self.in_count
           /\ out_count'       = r.self.out_count
           /\ seen_at'         = r.hist.seen_at
           /\ seen_side'       = r.hist.seen_side
           /\ crossings'       = r.hist.crossings
           /\ flips'           = r.hist.flips
           /\ tally'           = r.hist.tally
           /\ guarded'         = r.hist.guarded
           /\ other' = [other EXCEPT
                           !.self.tracker_state   = r.self.tracker_state,
                           !.self.already_counted = r.self.already_counted,
                           !.self.frame_last_seen = r.self.frame_last_seen]
    /\ UNCHANGED <<vector, grace_period, anchor_point>>

trigger(detections) ==
    /\ \E r \in {Run(Self, History, detections)} :
           /\ tracker_state'   = r.self.tracker_state
           /\ already_counted' = r.self.already_counted
           /\ frame_last_seen' = r.self.frame_last_seen
           /\ current_frame'   = r.self.current_frame
           /\ in_count'        = r.self.in_count
           /\ out_count'       = r.self.out_count
           /\ seen_at'         = r.hist.seen_at
           /\ seen_side'       = r.hist.seen_side
           /\ crossings'       = r.hist.crossings
           /\ flips'           = r.hist.flips
           /\ tally'           = r.hist.tally
           /\ guarded'         = r.hist.guarded
    /\ UNCHANGED <<vector, grace_period, anchor_point, other>>

\* One identity (and identity-less detections), MaxFrame frames.
Next ==
    \E detections \in FramesOne :
        current_frame < MaxFrame /\ trigger(detections)

Spec == Init /\ [][Next]_vars

\* Two identities, MaxFramePair frames, bottom-center anchoring (the boxes
\* of DetsPair have the same anchors, doubled x and side, under both).
InitPair == Init /\ anchor_point = "bottom_center"

NextPair ==
    \E detections \in FramesPair :
        current_frame < MaxFramePair /\ trigger(detections)

SpecPair == InitPair /\ [][NextPair]_vars

\* ------------------------------------------------------- two line zones
\* The line of the second zone: the first one reversed, so that its sides
\* are the opposite ones.
RLine == [start |-> Pt(100, 200), end |-> Pt(100, 0)]

ZoneGracePeriods == {0, 1}

\* The second zone after __init__.
OtherZones ==
    { [vector |-> RLine, grace_period |-> g, self |-> Fresh] :
          g \in ZoneGracePeriods }

DetsZones == { Det(b, "t1") : b \in {Left, Right} }
FramesZones == FramesOf(DetsZones)

\* is_within_line_segment of the zone z on a doubled point.
ZoneWithin(z, p2) ==
    LET x_within ==
            /\ 2 * (Min(z.vector.start.x, z.vector.end.x) - margin) <= p2.x
            /\ p2.x <= 2 * (Max(z.vector.start.x, z.vector.end.x) + margin)
        y_within ==
            /\ 2 * (Min(z.vector.start.y, z.vector.end.y) - margin) <= p2.y
            /\ p2.y <= 2 * (Max(z.vector.start.y, z.vector.end.y) + margin)
    IN  x_within /\ y_within

\* Vector.is_in of the zone z on a doubled point.
ZoneIsIn(z, p2) ==
    LET cross_product2 ==
            (z.vector.end.x - z.vector.start.x) * (p2.y - 2 * z.vector.start.y)
          - (z.vector.end.y - z.vector.start.y) * (p2.x - 2 * z.vector.start.x)
    IN  cross_product2 < 0

\* One pass of the loop body of trigger of the zone z, on its object s.
ZoneStep(z, s, det) ==
    LET id     == det.tracker_id
        anchor == Anchor2(det.xyxy)
        side   == ZoneIsIn(z, anchor)
    IN  IF id = None THEN s
        ELSE IF ~ZoneWithin(z, anchor) THEN s
        ELSE IF id \notin DOMAIN s.tracker_state THEN NewDetection(s, id, side)
        ELSE IF s.tracker_state[id] = side THEN SameSide(s, id)
        ELSE IF /\ Get(s.already_counted, id, FALSE)
                /\ ~(s.current_frame - Get(s.frame_last_seen, id, 0)
                         > z.grace_period)
             THEN Suppress(s, id)
        ELSE Count(s, id, side)

\* The for loop of trigger of the zone z over detections[k..].
RECURSIVE ZoneLoop(_, _, _, _)
ZoneLoop(z, s, detections, k) ==
    IF k > Len(detections) THEN s
    ELSE ZoneLoop(z, ZoneStep(z, s, detections[k]), detections, k + 1)

\* trigger(detections) of the zone z: the zone after the call.
ZoneRun(z, detections) ==
    [z EXCEPT !.self =
        ZoneLoop(z, [z.self EXCEPT !.current_frame = @ + 1], detections, 1)]

\* line_zone.trigger(detections) on the second zone.
triggerOther(detections) ==
    /\ other' = ZoneRun(other, detections)
    /\ UNCHANGED <<vector, grace_period, anchor_point, tracker_state,
                   already_counted, frame_last_seen, current_frame, in_count,
                   out_count, seen_at, seen_side, crossings, flips, tally,
                   guarded>>

\* Two zones over one identity, MaxFrameZones calls on each, in any order.
InitZones ==
    /\ InitCounter
    /\ vector = VLine
    /\ grace_period \in ZoneGracePeriods
    /\ anchor_point = "bottom_center"
    /\ other \in OtherZones

NextZones ==
    \E detections \in FramesZones :
        \/ current_frame < MaxFrameZones /\ trigger(detections)
        \/ other.self.current_frame < MaxFrameZones /\ triggerOther(detections)

SpecZones == InitZones /\ [][NextZones]_vars

\* ------------------------------------------------------------ properties

\* C1  Single count per episode.  An identity sighted on every frame since
\* its first sighting, once per frame, its side flipping each time, never
\* has a gap of more than one frame between sightings; with a grace period
\* of at least 1 it contributes at most one increment to in_count +
\* out_count.
C1_SingleCountPerEpisode ==
    \A id \in DOMAIN flips :
        (flips[id] /\ 1 <= grace_period) => crossings[id] <= 1

\* C2  Grace-period boundary.  With grace_period = G >= 0, a frame holding
\* one detection of an already counted identity, on the side its record
\* does not hold: G frames after the frame the identity was last seen in,
\* no counter changes; G + 1 frames after it, exactly one counter
\* increments by 1.
C2_GraceBoundary ==
    [][ \A d \in DetsOne :
          LET id  == d.tracker_id
              gap == current_frame' - seen_at[id]
          IN  ( /\ grace_period >= 0
                /\ trigger(<<d>>)
                /\ Valid(d)
                /\ id \in DOMAIN tracker_state
                /\ already_counted[id]
                /\ is_in(Anchor2(d.xyxy)) # tracker_state[id] )
              => /\ gap = grace_period
                      => (in_count' = in_count /\ out_count' = out_count)
                 /\ gap = grace_period + 1
                      => ( /\ in_count' >= in_count
                           /\ out_count' >= out_count
                           /\ in_count' + out_count' = in_count + out_count + 1 )
      ]_vars

\* The object after two frames on a fresh counter, each holding one
\* detection of t1: box b1, then box b2.
Play(b1, b2) ==
    Run(Run(Fresh, NoHistory, <<Det(b1, "t1")>>).self, NoHistory,
        <<Det(b2, "t1")>>).self

\* The second of those two calls, on VLine with bottom-center anchoring.
SecondFrame(b1, b2) ==
    /\ vector = VLine
    /\ anchor_point = "bottom_center"
    /\ Self = Run(Fresh, NoHistory, <<Det(b1, "t1")>>).self
    /\ trigger(<<Det(b2, "t1")>>)

\* After b1 then b2 one counter is 1 and the other 0; after b2 then b1 it
\* is the other counter that is 1.
Direction(b1, b2) ==
    /\ SecondFrame(b1, b2) =>
          /\ in_count' + out_count' = 1
          /\ in_count' >= 0 /\ out_count' >= 0
    /\ SecondFrame(b2, b1) =>
          /\ in_count'  = Play(b1, b2).out_count
          /\ out_count' = Play(b1, b2).in_count

\* C3  Direction correctness, as claimed: line (100,0)-(100,200),
\* bottom-center anchoring, one identity with its anchor at x=50 in frame 1
\* and x=150 in frame 2: exactly one of in_count/out_count is 1 and the
\* other 0 after frame 2; the reversed motion increments the other counter.
C3_Direction == [][Direction(FarLeft, FarRight)]_vars

\* C3 amended: the same with the anchors at x=90 and x=110, inside the
\* margin rectangle (x in 80..120) on either side of the line.
C3_DirectionNear == [][Direction(Left, Right)]_vars

C3_Witness ==
    /\ vector = VLine
    /\ anchor_point = "bottom_center"
    /\ current_frame = 2
    /\ Self = Play(Left, Right)
    /\ in_count + out_count = 1
    /\ Play(Right, Left).in_count = out_count
    /\ Play(Right, Left).out_count = in_count

\* C4  Monotonicity: in_count and out_count are never negative and no
\* trigger call makes either smaller.
C4_Monotonic ==
    /\ [](in_count >= 0 /\ out_count >= 0)
    /\ [][in_count' >= in_count /\ out_count' >= out_count]_vars

C4_Witness == in_count >= 1 /\ out_count >= 1

\* The rectangle spanned by the line's endpoints, expanded by margin on
\* every side, as the claims state it (p2 a doubled point).
InRect(p2) ==
    /\ 2 * (Min(vector.start.x, vector.end.x) - margin) <= p2.x
    /\ p2.x <= 2 * (Max(vector.start.x, vector.end.x) + margin)
    /\ 2 * (Min(vector.start.y, vector.end.y) - margin) <= p2.y
    /\ p2.y <= 2 * (Max(vector.start.y, vector.end.y) + margin)

\* The object after trigger(detections), were it called in the current state.
After(detections) == Run(Self, History, detections).self

\* The states of the object inside a call.  The body of the loop runs on
\* the object as the passes before it left it, current_frame being the
\* frame of the call: that is the object after trigger(the detections
\* before this one), so the states with current_frame >= 1 are the states
\* a pass can start in, and Step(Self, d) is the pass over d in that call.
InCall == current_frame >= 1

\* C5  No count without history: a pass of the loop over a detection of an
\* identity that has no record, its anchor inside the margin rectangle,
\* creates the record (side = the side computed, flag false, last seen =
\* the frame of the call) and changes neither in_count nor out_count.
C5_NoCountWithoutHistory ==
    InCall =>
        \A d \in DetsPair :
            LET id == d.tracker_id
                t  == Step(Self, d)
            IN  ( /\ id # None
                  /\ InRect(Anchor2(d.xyxy))
                  /\ id \notin DOMAIN tracker_state )
                => /\ DOMAIN t.tracker_state = DOMAIN tracker_state \cup {id}
                   /\ t.tracker_state[id] = is_in(Anchor2(d.xyxy))
                   /\ t.already_counted[id] = FALSE
                   /\ t.frame_last_seen[id] = current_frame
                   /\ t.in_count = in_count
                   /\ t.out_count = out_count

\* An identity first sighted in the last call, on the "in" side, when
\* another identity had been counted: the counters were not zero.
C5_Witness ==
    \E id \in DOMAIN tracker_state :
        /\ tracker_state[id]
        /\ ~already_counted[id]
        /\ frame_last_seen[id] = current_frame
        /\ crossings[id] = 0
        /\ in_count + out_count >= 1

\* C6  Margin filtering: a detection whose anchor is outside the margin
\* rectangle changes nothing but the frame counter.  The pass over it
\* leaves the object (counters, records, the identities that have one) as
\* it found it, so the call ends as it does without that detection; and a
\* frame of that detection alone moves the frame counter only.
C6_MarginFiltering ==
    \A d \in DetsPair :
        ~InRect(Anchor2(d.xyxy)) =>
            /\ InCall => Step(Self, d) = Self
            /\ After(<<d>>) = [Self EXCEPT !.current_frame = @ + 1]
            /\ \A e \in DetsPair :
                  /\ After(<<d, e>>) = After(<<e>>)
                  /\ After(<<e, d>>) = After(<<e>>)

\* An identity with a record, not counted yet, and a detection of it across
\* the line but outside the rectangle: the call moves the frame counter only.
C6_Witness ==
    \E d \in DetsPair :
        /\ d.tracker_id \in DOMAIN tracker_state
        /\ ~already_counted[d.tracker_id]
        /\ is_in(Anchor2(d.xyxy)) # tracker_state[d.tracker_id]
        /\ ~InRect(Anchor2(d.xyxy))
        /\ After(<<d>>) = [Self EXCEPT !.current_frame = @ + 1]
        /\ in_count + out_count >= 1

\* A detection of an identity crossing to side: it has a record on the
\* other side, its anchor is inside the rectangle on side, and it was not
\* counted yet or was last seen more than grace_period frames ago.
CrossesTo(d, side) ==
    /\ d.tracker_id \in DOMAIN tracker_state
    /\ InRect(Anchor2(d.xyxy))
    /\ is_in(Anchor2(d.xyxy)) = side
    /\ tracker_state[d.tracker_id] # side
    /\ \/ ~already_counted[d.tracker_id]
       \/ current_frame + 1 - seen_at[d.tracker_id] > grace_period

\* C7  Independence across identities: the passes over two detections of
\* different identities commute in every state of a call, so a frame in
\* which every identity occurs at most once ends in the same object in any
\* order of its detections; and a frame of two identities crossing in
\* opposite directions increments in_count by 1 and out_count by 1.
C7_OrderIndependence ==
    \A d, e \in DetsPair :
        d.tracker_id # e.tracker_id =>
            /\ InCall => Step(Step(Self, d), e) = Step(Step(Self, e), d)
            /\ After(<<d, e>>) = After(<<e, d>>)
            /\ (CrossesTo(d, TRUE) /\ CrossesTo(e, FALSE))
                  => /\ After(<<d, e>>).in_count = in_count + 1
                     /\ After(<<d, e>>).out_count = out_count + 1

\* Two identities first sighted in frame 1 and counted in frame 2, one to
\* each side.
C7_Witness ==
    \E a, b \in DOMAIN tracker_state :
        /\ a # b
        /\ current_frame = 2
        /\ frame_last_seen[a] = 2 /\ frame_last_seen[b] = 2
        /\ already_counted[a] /\ already_counted[b]
        /\ tracker_state[a] /\ ~tracker_state[b]
        /\ crossings[a] = 1 /\ crossings[b] = 1
        /\ in_count = 1 /\ out_count = 1

\* C8  Degenerate line rejection: no counter whose line starts where it
\* ends exists for trigger to run on.
C8_DegenerateLineRejected ==
    current_frame >= 1 => vector.start # vector.end

\* C9  No counter exists with a negative grace period or a negative margin.
C9_NonNegativeConfig == grace_period >= 0 /\ margin >= 0

\* C10  frame_last_seen of an identity that has a record never decreases
\* from one trigger call to the next (and the record stays).
C10_LastSeenMonotone ==
    [][ \A id \in DOMAIN frame_last_seen :
          /\ id \in DOMAIN frame_last_seen'
          /\ frame_last_seen'[id] >= frame_last_seen[id] ]_vars

\* An identity counted twice: its frame_last_seen was set three times.
C10_Witness ==
    \E id \in DOMAIN frame_last_seen :
        crossings[id] >= 2 /\ frame_last_seen[id] >= 3

\* C11: the frame counter is 0 after construction and every call of trigger
\* adds exactly 1 to it, so that after the n-th call it is n; also a call on
\* an empty frame, and on a frame whose detection has no identity or lies
\* outside the margin rectangle.
C11_FrameCounter ==
    /\ current_frame = 0
    /\ [][current_frame' = current_frame + 1]_vars
    /\ [](/\ After(<<>>).current_frame = current_frame + 1
          /\ \A d \in DetsOne :
                 (d.tracker_id = None \/ ~InRect(Anchor2(d.xyxy)))
                     => After(<<d>>).current_frame = current_frame + 1)

\* Three calls went by and none processed a sighting.
C11_Witness ==
    /\ current_frame = 3
    /\ tracker_state = Empty
    /\ seen_at = Empty

\* C12: a detection without an identity is skipped wherever its box lies: a
\* pass over it leaves the object as it was, a frame holding only it changes
\* nothing but the frame counter, before or after another detection it leaves
\* that detection's effect as it is, and None never becomes a key.
C12_NoIdentitySkipped ==
    /\ None \notin DOMAIN tracker_state
    /\ \A d \in DetsOne :
           d.tracker_id = None =>
               /\ InCall => Step(Self, d) = Self
               /\ After(<<d>>) = [Self EXCEPT !.current_frame = @ + 1]
               /\ \A e \in DetsOne :
                      /\ After(<<d, e>>) = After(<<e>>)
                      /\ After(<<e, d>>) = After(<<e>>)

\* A counted identity has its record on one side, and a detection without
\* an identity has its anchor inside the rectangle on the other side.
C12_Witness ==
    \E d \in DetsOne :
        /\ d.tracker_id = None
        /\ InRect(Anchor2(d.xyxy))
        /\ \E id \in DOMAIN tracker_state :
               /\ tracker_state[id] # is_in(Anchor2(d.xyxy))
               /\ crossings[id] >= 1
        /\ After(<<d>>) = [Self EXCEPT !.current_frame = @ + 1]

\* C13: after a call, every identity that was sighted inside the margin
\* rectangle in that call has frame_last_seen equal to the frame counter,
\* also when its side did not change and when its side change was
\* suppressed.
C13_LastSeenUpdated ==
    \A id \in DOMAIN seen_at :
        seen_at[id] = current_frame => frame_last_seen[id] = current_frame

\* C14: with grace_period >= 0, two counted crossings of the same identity
\* are more than grace_period frames apart: a call counts an identity at
\* most once, also when it holds several detections of it, and a call that
\* counts it comes more than grace_period frames after the call that
\* counted it before.
C14_CountsApart ==
    [][ \A id \in DOMAIN tally' :
            LET before == IF id \in DOMAIN tally THEN tally[id] ELSE NoTally
                n      == (tally'[id].ins + tally'[id].outs)
                              - (before.ins + before.outs)
            IN  grace_period >= 0 =>
                    /\ n <= 1
                    /\ (n = 1 /\ before.ins + before.outs >= 1)
                           => current_frame' - before.at > grace_period ]_vars

\* An identity was counted twice under a grace period of at least one frame.
C14_Witness ==
    \E id \in DOMAIN tally :
        /\ tally[id].ins + tally[id].outs >= 2
        /\ grace_period >= 1

\* A detection whose pass is a counted crossing: its identity has a record
\* on the other side, its anchor is inside the rectangle, and the identity
\* was not counted yet or its frame_last_seen is more than grace_period
\* frames before the frame of the call.
IsCountedCrossing(d) ==
    /\ d.tracker_id \in DOMAIN tracker_state
    /\ InRect(Anchor2(d.xyxy))
    /\ tracker_state[d.tracker_id] # is_in(Anchor2(d.xyxy))
    /\ \/ ~already_counted[d.tracker_id]
       \/ current_frame - frame_last_seen[d.tracker_id] > grace_period

\* C15: in every state of a call, the pass over a counted crossing stores the
\* new side, sets already_counted, sets frame_last_seen to the frame of the
\* call, adds 1 to in_count when the new side is true and to out_count when
\* it is false, and leaves the other count, the frame counter and the
\* records of all other identities as they were.
C15_CountedCrossing ==
    InCall =>
        \A d \in DetsPair :
            IsCountedCrossing(d) =>
                LET id   == d.tracker_id
                    side == is_in(Anchor2(d.xyxy))
                    t    == Step(Self, d)
                IN  /\ t.tracker_state[id] = side
                    /\ t.already_counted[id]
                    /\ t.frame_last_seen[id] = current_frame
                    /\ t.in_count = in_count + (IF side THEN 1 ELSE 0)
                    /\ t.out_count = out_count + (IF side THEN 0 ELSE 1)
                    /\ t.current_frame = current_frame
                    /\ DOMAIN t.tracker_state = DOMAIN tracker_state
                    /\ DOMAIN t.already_counted = DOMAIN already_counted
                    /\ DOMAIN t.frame_last_seen = DOMAIN frame_last_seen
                    /\ \A o \in DOMAIN tracker_state \ {id} :
                           /\ t.tracker_state[o] = tracker_state[o]
                           /\ t.already_counted[o] = already_counted[o]
                           /\ t.frame_last_seen[o] = frame_last_seen[o]

\* In a call, a counted identity crosses back after its grace period while
\* another identity has a record, and the pass counts it.
C15_Witness ==
    /\ InCall
    /\ \E d \in DetsPair :
           /\ IsCountedCrossing(d)
           /\ already_counted[d.tracker_id]
           /\ DOMAIN tracker_state # {d.tracker_id}
           /\ LET t == Step(Self, d)
              IN  t.in_count + t.out_count = in_count + out_count + 1

\* C16 as stated: after every call the stored side of an identity is the
\* side computed at its most recent sighting inside the margin rectangle,
\* also when that sighting's side change was suppressed.
C16_StoredSideLastSighting ==
    \A id \in DOMAIN seen_side : tracker_state[id] = seen_side[id]

\* C16 amended: after every call the stored side of an identity is the side
\* computed at its most recent sighting inside the margin rectangle exactly
\* when that sighting was not a side change suppressed by the grace period;
\* after a suppressed one it is still the opposite side.
C16_StoredSide ==
    \A id \in DOMAIN seen_side :
        (tracker_state[id] = seen_side[id]) <=> ~guarded[id]

\* The last sighting of a counted identity was a suppressed side change.
C16_Witness ==
    \E id \in DOMAIN seen_side :
        /\ guarded[id]
        /\ already_counted[id]
        /\ seen_at[id] = current_frame
        /\ tracker_state[id] # seen_side[id]

\* C17: the line zones are independent: a call of trigger on one zone (the
\* call that moves its frame counter) leaves the counts, the frame counter
\* and the three dicts of the other zone as they were, in any interleaving
\* of the calls.
C17_ZonesIndependent ==
    [][ /\ current_frame' # current_frame => other' = other
        /\ other'.self.current_frame # other.self.current_frame
               => Self' = Self ]_vars

\* Both zones were called a different number of times, each counted the
\* identity, and their records differ.
C17_Witness ==
    /\ current_frame >= 1
    /\ other.self.current_frame >= 1
    /\ other.self.current_frame # current_frame
    /\ in_count + out_count >= 1
    /\ other.self.in_count + other.self.out_count >= 1
    /\ other.self.tracker_state # tracker_state

\* The second zone's pass is the first zone's pass when they have the same
\* line and grace period.
ZoneStepAgrees ==
    \A d \in DetsOne :
        ZoneStep([vector |-> vector, grace_period |-> grace_period,
                  self |-> Self], Self, d) = Step(Self, d)

\* The absolute value.
Abs(n) == IF n < 0 THEN -n ELSE n

\* C18: the counted crossings of an identity alternate in direction, so its
\* increments of in_count and of out_count differ by at most 1, and in_count
\* and out_count differ by at most the number of identities with a record.
C18_Alternation ==
    /\ \A id \in DOMAIN tally :
           /\ tally[id].alt
           /\ Abs(tally[id].ins - tally[id].outs) <= 1
    /\ Abs(in_count - out_count) <= Cardinality(DOMAIN tracker_state)

\* Of two identities with a record, one was counted in both directions.
C18_Witness ==
    /\ Cardinality(DOMAIN tracker_state) = 2
    /\ \E id \in DOMAIN tally :
           tally[id].ins >= 1 /\ tally[id].outs >= 1

\* C19: after every call already_counted of an identity is true exactly when
\* the identity has been counted at least once, and it never turns false
\* again from one call to the next; so in_count + out_count is at least the
\* number of identities whose flag is true; and in every state of a call the
\* first side change of an identity with a record is counted, whatever the
\* grace period.
C19_CountedFlag ==
    /\ [](/\ \A id \in DOMAIN already_counted :
                 already_counted[id]
                     <=> (id \in DOMAIN crossings /\ crossings[id] >= 1)
          /\ in_count + out_count
                 >= Cardinality({ id \in DOMAIN already_counted :
                                     already_counted[id] })
          /\ InCall =>
                 \A d \in DetsPair :
                     ( /\ d.tracker_id \in DOMAIN tracker_state
                       /\ crossings[d.tracker_id] = 0
                       /\ InRect(Anchor2(d.xyxy))
                       /\ tracker_state[d.tracker_id] # is_in(Anchor2(d.xyxy)) )
                     => LET t == Step(Self, d)
                        IN  /\ t.in_count + t.out_count
                                   = in_count + out_count + 1
                            /\ t.already_counted[d.tracker_id])
    /\ [][ \A id \in DOMAIN already_counted :
               already_counted[id]
                   => (id \in DOMAIN already_counted' /\ already_counted'[id]) ]_vars

\* One identity was counted twice, its flag reset and set again, and
\* another has a record and was never counted.
C19_Witness ==
    \E a, b \in DOMAIN already_counted :
        /\ crossings[a] >= 2
        /\ already_counted[a]
        /\ ~already_counted[b]
        /\ crossings[b] = 0

\* C20: tracker_state, already_counted and frame_last_seen have the same
\* keys, every frame_last_seen value is at least 1 and at most the frame
\* counter, and no call removes a key.
C20_Mappings ==
    /\ [](/\ DOMAIN already_counted = DOMAIN tracker_state
          /\ DOMAIN frame_last_seen = DOMAIN tracker_state
          /\ \A id \in DOMAIN frame_last_seen :
                 1 <= frame_last_seen[id] /\ frame_last_seen[id] <= current_frame)
    /\ [][ /\ DOMAIN tracker_state \subseteq DOMAIN tracker_state'
           /\ DOMAIN already_counted \subseteq DOMAIN already_counted'
           /\ DOMAIN frame_last_seen \subseteq DOMAIN frame_last_seen' ]_vars

\* A record created or counted in an earlier call is still there.
C20_Witness ==
    \E id \in DOMAIN tracker_state :
        /\ id \in DOMAIN already_counted
        /\ id \in DOMAIN frame_last_seen
        /\ frame_last_seen[id] >= 1
        /\ frame_last_seen[id] < current_frame

====
